---- MODULE Spec2Model ----
(***************************************************************************)
(* Asset packages: the layer writer (internal/asset/writer.go, AssetWriter) *)
(* and the multi-source fetcher (internal/asset/fetcher.go, Fetcher).       *)
(*                                                                         *)
(* The identity fields of an AssetInfo (ID, Name, Version, URI, Stacks)    *)
(* are copied together and are modelled by the ID.                         *)
(***************************************************************************)
EXTENDS Integers, Sequences, FiniteSets, TLC

\* ---- bounds -------------------------------------------------------------
MaxBlobs == 2
MaxRefs == 2
MaxOpts == 2
MaxAssets == 2


\* the declared hashes, assets and blob contents of
\* create_asset_package_test.go, and the ID of an asset whose blob cannot be
\* opened (the mock blob of the test)
HashOrder == <<"first-sha256", "second-sha256">>
Hashes == {HashOrder[i] : i \in 1..Len(HashOrder)}
Idents == {"first-asset", "first-asset-replace"}
Contents == {"first asset contents", "first replace asset contents"}
UnreadableID == "unreadable-asset"
NoContent == "open blob error"

\* ---- content model ------------------------------------------------------
\* lw.tmpDir == "" (writer.go:62, 77, 93)
NoDir == ""

\* the names ioutil.TempDir("", "writer-workspace") can return
DirIds == {"writer-workspace1", "writer-workspace2"}

\* the empty LayerDiffID passed by AddAssetBlobs (writer.go:133)
EmptyDiffID == ""

\* dist.AssetInfo as the writer uses it: the identity fields and Sha256
AssetInfo == [ID : Idents \cup {UnreadableID}, Sha256 : Hashes]

\* a Blob: AssetDescriptor(), and Open() that yields the content or fails
Blob ==
    [descriptor : [ID : Idents, Sha256 : Hashes], content : Contents, openErr : {FALSE}]
    \cup [descriptor : [ID : {UnreadableID}, Sha256 : Hashes], content : {NoContent},
          openErr : {TRUE}]

\* AssetInfo.ToAssetValue(layerDiffID): the identity fields and the diff-id
ToAssetValue(info, layerDiffID) == [ID |-> info.ID, LayerDiffID |-> layerDiffID]

\* a failed registration reported under the layer-creation message
ErrWriteLayerAsCreate == "unable to create asset layer file"

\* errors returned by the writer's operations
NoErr == "nil"
ErrAlreadyOpen == "unable to open writer: writer already open"
ErrTempDir == "TempDir failed"
ErrNotOpenClose == "unable to close writer: writer is not open"
ErrRemoveAll == "RemoveAll failed"
ErrNotOpenWrite == "AssetWriter must be opened before writing"
ErrCreateLayer == "unable to create asset layer file"
ErrWriteLayer == "unable to write layer"
ErrUnknownAsset == "unknown sha256 asset value"
ErrSetLabel == "setting label"

LayersLabel == "io.buildpacks.asset.layers"

\* ---- layer construction -------------------------------------------------
\* the header of the asset file written without its contents
ToAssetTarHeadersOnly(blobSha, content) ==
    << [Typeflag |-> "dir", Name |-> "/cnb"],
       [Typeflag |-> "dir", Name |-> "/cnb/assets"],
       [Typeflag |-> "reg", Name |-> "/cnb/assets/" \o blobSha, data |-> ""] >>

\* toAssetTar: the entries of the tar stream, in the order they are written.
\* The stream does not depend on the identity fields nor on the workspace.
ToAssetTar(blobSha, content) ==
    << [Typeflag |-> "dir", Name |-> "/cnb"],
       [Typeflag |-> "dir", Name |-> "/cnb/assets"],
       [Typeflag |-> "reg", Name |-> "/cnb/assets/" \o blobSha, data |-> content] >>

\* what toAssetTar has written when blob.Open fails: the two directory headers
TarBeforeOpen(blobSha) == SubSeq(ToAssetTar(blobSha, NoContent), 1, 2)

\* hex.EncodeToString(sha256(bytes)): a string that determines the bytes
\* (no two layers collide)
Sha256Hex(bytes) == ToString(bytes)

\* "sha256:" + layerDiffID
DiffIDOf(hash) == "sha256:" \o hash

\* filepath.Join(lw.tmpDir, Sha256)
LayerFileName(dir, sha) == <<dir, sha>>

NoFile == <<>>
EmptyDir == [h \in Hashes |-> NoFile]

\* the hash taken over the file's name and the stream
CreateAssetLayerFileHashesName(fsys, layerFileName, aBlob, openFileErr) ==
    LET dir == layerFileName[1]
        sha == layerFileName[2]
    IN IF openFileErr \/ dir \notin DOMAIN fsys
       THEN [fs |-> fsys, hash |-> "", err |-> TRUE, opened |-> FALSE]
       ELSE IF aBlob.openErr
       THEN [fs |-> [fsys EXCEPT ![dir][sha] = TarBeforeOpen(aBlob.descriptor.Sha256)],
             hash |-> "", err |-> TRUE, opened |-> TRUE]
       ELSE LET tar == ToAssetTar(aBlob.descriptor.Sha256, aBlob.content)
            IN [fs |-> [fsys EXCEPT ![dir][sha] = tar],
                hash |-> Sha256Hex(<<dir, tar>>), err |-> FALSE, opened |-> TRUE]

\* createAssetLayerFile fed by GenerateTarWithWriter(toAssetTar): OpenFile
\* creates or truncates the file, then the tar stream is copied into the file
\* and the hasher. The blob is opened only once the copy has started.
CreateAssetLayerFile(fsys, layerFileName, aBlob, openFileErr) ==
    LET dir == layerFileName[1]
        sha == layerFileName[2]
    IN IF openFileErr \/ dir \notin DOMAIN fsys
       THEN [fs |-> fsys, hash |-> "", err |-> TRUE, opened |-> FALSE]
       ELSE IF aBlob.openErr
       THEN [fs |-> [fsys EXCEPT ![dir][sha] = TarBeforeOpen(aBlob.descriptor.Sha256)],
             hash |-> "", err |-> TRUE, opened |-> TRUE]
       ELSE LET tar == ToAssetTar(aBlob.descriptor.Sha256, aBlob.content)
            IN [fs |-> [fsys EXCEPT ![dir][sha] = tar],
                hash |-> Sha256Hex(tar), err |-> FALSE, opened |-> TRUE]

\* ---- the label -----------------------------------------------------------
\* the keys of S in sorted order (HashOrder lists the hashes sorted)
SortedKeys(S) == SelectSeq(HashOrder, LAMBDA h : h \in S)

\* json.Marshal of an AssetMap: one member per key, keys in sorted order
EncodeAssetMap(md) ==
    LET ks == SortedKeys(DOMAIN md)
    IN [i \in 1..Len(ks) |-> [key |-> ks[i], id |-> md[ks[i]].ID,
                               layerDiffID |-> md[ks[i]].LayerDiffID]]

\* json.Unmarshal into an AssetMap
DecodeAssetMap(js) ==
    [k \in {js[i].key : i \in 1..Len(js)} |->
        LET i == CHOOSE j \in 1..Len(js) : js[j].key = k
        IN [ID |-> js[i].id, LayerDiffID |-> js[i].layerDiffID]]

\* ---- state ---------------------------------------------------------------
VARIABLES
    tmpDir,     \* lw.tmpDir: NoDir or the workspace directory
    blobs,      \* lw.blobs
    metadata,   \* lw.metadata: declared Sha256 -> AssetValue
    fs,         \* the directories that exist and the layer files in them
    calls,      \* the calls the last operation made on the target and the blobs
    ret,        \* the last operation and the error it returned
    fNames,     \* FetchAssets: assetNameList
    fOptions,   \* FetchAssets: options
    fWorld,     \* FetchAssets: os.Getwd's outcome and the paths that exist
    fpc,        \* FetchAssets: where the call is
    fCfg,       \* FetchAssets: cfg
    fIdx,       \* FetchAssets: the index of the range loop
    fResult,    \* FetchAssets: result
    fErr,       \* FetchAssets: the error returned
    fCalls,     \* the strategy calls FetchAssets has made, and what they returned
    sCall,      \* a call of one strategy: the fetcher and its arguments
    sRet,       \* what that call returned, and the calls it made
    goroutines  \* an operation called from several goroutines: each one's locals

wvars == <<tmpDir, blobs, metadata, fs, calls, ret>>
fvars == <<fNames, fOptions, fWorld, fpc, fCfg, fIdx, fResult, fErr, fCalls>>
svars == <<sCall, sRet>>
cvars == <<goroutines>>
vars == <<wvars, fvars, svars, cvars>>

Call(op, at, path, arg, err) ==
    [op |-> op, at |-> at, path |-> path, arg |-> arg, err |-> err]

Returned(op, err) == [op |-> op, err |-> err]

\* NewLayerWriter
WriterInit ==
    /\ tmpDir = NoDir
    /\ blobs = <<>>
    /\ metadata = <<>>
    /\ fs = <<>>
    /\ calls = <<>>
    /\ ret = Returned("NewLayerWriter", NoErr)

\* the error FetchAssets returns: nil, or a message and the values formatted
\* into it
NoFetchErr == [msg |-> "nil", args |-> <<>>]
FetchErr(msg, args) == [msg |-> msg, args |-> args]

\* the error a strategy returned, formatted with %s into FetchAssets' error:
\* its text is the strategy's
StrategyCause == "err"

\* no FetchAssets call
FetchIdle ==
    /\ fNames = <<>>
    /\ fOptions = <<>>
    /\ fWorld = [getwdErr |-> FALSE, disk |-> {}]
    /\ fpc = "idle"
    /\ fCfg = <<>>
    /\ fIdx = 0
    /\ fResult = <<>>
    /\ fErr = NoFetchErr
    /\ fCalls = <<>>

\* no strategy call
NoCall == [fn |-> "none"]
NotReturned == [fn |-> "none"]
StrategyIdle == sCall = NoCall /\ sRet = NotReturned

\* no goroutine in FetchAssets or AddAssetBlobs
NoGoroutines == goroutines = <<>>

Init == WriterInit /\ FetchIdle /\ StrategyIdle /\ NoGoroutines

\* ---- Open / Close --------------------------------------------------------
\* the checks of the writer's state left out
AlreadyOpenUnchecked(dir) == FALSE
NotOpenForCloseUnchecked(dir) == FALSE
NotOpenForWriteUnchecked(dir) == FALSE

\* Open: if lw.tmpDir != ""
AlreadyOpen(dir) == dir # NoDir

\* Close: if lw.tmpDir == ""
NotOpenForClose(dir) == dir = NoDir

\* Write: if lw.tmpDir == ""
NotOpenForWrite(dir) == dir = NoDir

\* ioutil.TempDir: a directory that did not exist, created empty
TempDirs(fsys) == DirIds \ DOMAIN fsys

\* the directory left in place
RemoveAllNothing(fsys, dir) == fsys

\* os.RemoveAll(dir) returning nil: the directory and its files are gone
RemoveAll(fsys, dir) == [d \in (DOMAIN fsys) \ {dir} |-> fsys[d]]

\* os.RemoveAll(dir) returning an error: the directory still exists with
\* whatever files the call had not yet deleted
RemoveAllFailed(fsys, dir) ==
    {[fsys EXCEPT ![dir] = [h \in Hashes |-> IF h \in keep THEN fsys[dir][h] ELSE NoFile]] :
        keep \in SUBSET Hashes}

OpenAlready ==
    /\ AlreadyOpen(tmpDir)
    /\ ret' = Returned("Open", ErrAlreadyOpen)
    /\ calls' = <<>>
    /\ UNCHANGED <<tmpDir, blobs, metadata, fs, fvars, svars, cvars>>

OpenTempDirFails ==
    /\ ~AlreadyOpen(tmpDir)
    /\ ret' = Returned("Open", ErrTempDir)
    /\ calls' = <<>>
    /\ UNCHANGED <<tmpDir, blobs, metadata, fs, fvars, svars, cvars>>

OpenOk ==
    /\ ~AlreadyOpen(tmpDir)
    /\ \E d \in TempDirs(fs) :
          /\ fs' = (d :> EmptyDir) @@ fs
          /\ tmpDir' = d
    /\ ret' = Returned("Open", NoErr)
    /\ calls' = <<>>
    /\ UNCHANGED <<blobs, metadata, fvars, svars, cvars>>

Open == OpenAlready \/ OpenTempDirFails \/ OpenOk

CloseNotOpen ==
    /\ NotOpenForClose(tmpDir)
    /\ ret' = Returned("Close", ErrNotOpenClose)
    /\ calls' = <<>>
    /\ UNCHANGED <<tmpDir, blobs, metadata, fs, fvars, svars, cvars>>

\* a failed Close that forgets the workspace
CloseRemoveAllFailsClearsTmpDir ==
    /\ ~NotOpenForClose(tmpDir)
    /\ tmpDir \in DOMAIN fs
    /\ fs' \in RemoveAllFailed(fs, tmpDir)
    /\ tmpDir' = NoDir
    /\ ret' = Returned("Close", ErrRemoveAll)
    /\ calls' = <<>>
    /\ UNCHANGED <<blobs, metadata, fvars, svars, cvars>>

CloseRemoveAllFails ==
    /\ ~NotOpenForClose(tmpDir)
    /\ tmpDir \in DOMAIN fs
    /\ fs' \in RemoveAllFailed(fs, tmpDir)
    /\ ret' = Returned("Close", ErrRemoveAll)
    /\ calls' = <<>>
    /\ UNCHANGED <<tmpDir, blobs, metadata, fvars, svars, cvars>>

\* Close that deletes the workspace and keeps lw.tmpDir
CloseOkKeepsTmpDir ==
    /\ ~NotOpenForClose(tmpDir)
    /\ fs' = RemoveAll(fs, tmpDir)
    /\ ret' = Returned("Close", NoErr)
    /\ calls' = <<>>
    /\ UNCHANGED <<tmpDir, blobs, metadata, fvars, svars, cvars>>

CloseOk ==
    /\ ~NotOpenForClose(tmpDir)
    /\ fs' = RemoveAll(fs, tmpDir)
    /\ tmpDir' = NoDir
    /\ ret' = Returned("Close", NoErr)
    /\ calls' = <<>>
    /\ UNCHANGED <<blobs, metadata, fvars, svars, cvars>>

Close == CloseNotOpen \/ CloseRemoveAllFails \/ CloseOk

\* ---- AddAssetBlobs -------------------------------------------------------
RECURSIVE RecordMetadataFirstWins(_, _)
\* an entry already stored under the hash is kept
RecordMetadataFirstWins(md, aBlobs) ==
    IF aBlobs = <<>> THEN md
    ELSE LET descriptor == Head(aBlobs).descriptor
         IN RecordMetadataFirstWins(
                md @@ (descriptor.Sha256 :> ToAssetValue(descriptor, EmptyDiffID)),
                Tail(aBlobs))

\* only the first of the blobs recorded
RecordMetadataHeadOnly(md, aBlobs) ==
    IF aBlobs = <<>> THEN md
    ELSE (Head(aBlobs).descriptor.Sha256 :> ToAssetValue(Head(aBlobs).descriptor, EmptyDiffID))
             @@ md

RECURSIVE RecordMetadata(_, _)
\* for _, b := range aBlobs { lw.metadata[Sha256] = descriptor.ToAssetValue("") }
RecordMetadata(md, aBlobs) ==
    IF aBlobs = <<>> THEN md
    ELSE LET descriptor == Head(aBlobs).descriptor
         IN RecordMetadata(
                (descriptor.Sha256 :> ToAssetValue(descriptor, EmptyDiffID)) @@ md,
                Tail(aBlobs))

\* a blob whose declared hash is already in the sequence left out
AppendBlobsNoDuplicates(bl, aBlobs) ==
    bl \o SelectSeq(aBlobs, LAMBDA b :
              \A i \in 1..Len(bl) : bl[i].descriptor.Sha256 # b.descriptor.Sha256)

\* lw.blobs = append(lw.blobs, aBlobs...)
AppendBlobs(bl, aBlobs) == bl \o aBlobs

BlobSeqs(n) == UNION {[1..k -> Blob] : k \in 0..n}

AddAssetBlobs ==
    \E aBlobs \in BlobSeqs(MaxBlobs - Len(blobs)) :
        /\ blobs' = AppendBlobs(blobs, aBlobs)
        /\ metadata' = RecordMetadata(metadata, aBlobs)
        /\ ret' = [op |-> "AddAssetBlobs", err |-> NoErr, args |-> aBlobs]
        /\ calls' = <<>>
        /\ UNCHANGED <<tmpDir, fs, fvars, svars, cvars>>

\* ---- Write ---------------------------------------------------------------
\* what the environment does to one Write: nothing, or the first failure of
\* OpenFile or AddLayerWithDiffID (at a blob) or of the target's SetLabel
NoFault == [kind |-> "none", at |-> 0]
Faults(n) ==
    {NoFault} \cup [kind : {"OpenFile", "AddLayerWithDiffID"}, at : 1..n]
              \cup {[kind |-> "SetLabel", at |-> 0]}

\* the diff-id taken from the declared hash instead of the hash computed
SetLayerDiffIDDeclared(md, sha, hash) == [md EXCEPT ![sha].LayerDiffID = DiffIDOf(sha)]

\* the diff-id stored in every entry of the map
SetLayerDiffIDAll(md, sha, hash) ==
    [k \in DOMAIN md |-> [md[k] EXCEPT !.LayerDiffID = DiffIDOf(hash)]]

\* the copy m changed and never written back into the map
SetLayerDiffIDNotStored(md, sha, hash) == md

\* m.LayerDiffID = "sha256:" + layerDiffID; lw.metadata[Sha256] = m
SetLayerDiffID(md, sha, hash) == [md EXCEPT ![sha].LayerDiffID = DiffIDOf(hash)]

\* the error of a step ignored
NotNilIgnored(err) == FALSE

\* if err != nil { return ... } after createAssetLayerFile and AddLayerWithDiffID
NotNil(err) == err

\* the diff-ids taken back when the Write fails
OutcomeRolledBack(md, fsys, log, err) ==
    [metadata |-> IF err = NoErr THEN md
                  ELSE [k \in DOMAIN md |-> [md[k] EXCEPT !.LayerDiffID = EmptyDiffID]],
     fs |-> fsys, calls |-> log, err |-> err]

\* what a Write leaves and returns
Outcome(md, fsys, log, err) == [metadata |-> md, fs |-> fsys, calls |-> log, err |-> err]

RECURSIVE WriteBlobs(_, _, _, _, _, _, _)
\* for _, aBlob := range lw.blobs { ... }: the iterations from blob i on
WriteBlobs(i, dir, bl, md, fsys, log, fault) ==
    IF i > Len(bl) THEN Outcome(md, fsys, log, NoErr)
    ELSE
    LET aBlob == bl[i]
        descriptor == aBlob.descriptor
        layerFileName == LayerFileName(dir, descriptor.Sha256)
        file == CreateAssetLayerFile(fsys, layerFileName, aBlob,
                                     fault = [kind |-> "OpenFile", at |-> i])
        log0 == Append(log, Call("OpenFile", i, layerFileName, "", ~file.opened))
        log1 == IF file.opened
                THEN Append(log0, Call("Blob.Open", i, "", "", aBlob.openErr))
                ELSE log0
        addErr == fault = [kind |-> "AddLayerWithDiffID", at |-> i]
        log2 == Append(log1, Call("AddLayerWithDiffID", i, layerFileName,
                                  DiffIDOf(file.hash), addErr))
    IN IF NotNil(file.err) THEN Outcome(md, file.fs, log1, ErrCreateLayer)
       ELSE IF NotNil(addErr) THEN Outcome(md, file.fs, log2, ErrWriteLayer)
       ELSE IF descriptor.Sha256 \notin DOMAIN md
       THEN Outcome(md, file.fs, log2, ErrUnknownAsset)
       ELSE WriteBlobs(i + 1, dir, bl,
                       SetLayerDiffID(md, descriptor.Sha256, file.hash),
                       file.fs, log2, fault)

\* the label set before the layers are added
SetLabelFirst(out, fault) ==
    LET labelErr == fault.kind = "SetLabel"
    IN Outcome(out.metadata, out.fs,
               <<Call("SetLabel", 0, LayersLabel, EncodeAssetMap(out.metadata), labelErr)>>
                   \o out.calls,
               IF labelErr THEN ErrSetLabel ELSE NoErr)

\* no label set for an empty AssetMap
SetLabelUnlessEmpty(out, fault) ==
    LET labelErr == fault.kind = "SetLabel"
    IN IF out.metadata = <<>> THEN Outcome(out.metadata, out.fs, out.calls, NoErr)
       ELSE Outcome(out.metadata, out.fs,
                    Append(out.calls, Call("SetLabel", 0, LayersLabel,
                                           EncodeAssetMap(out.metadata), labelErr)),
                    IF labelErr THEN ErrSetLabel ELSE NoErr)

\* return dist.SetLabel(w, LayersLabel, lw.metadata)
SetLabel(out, fault) ==
    LET labelErr == fault.kind = "SetLabel"
    IN Outcome(out.metadata, out.fs,
               Append(out.calls, Call("SetLabel", 0, LayersLabel,
                                      EncodeAssetMap(out.metadata), labelErr)),
               IF labelErr THEN ErrSetLabel ELSE NoErr)

\* AssetWriter.Write
WriteOutcome(dir, bl, md, fsys, fault) ==
    IF NotOpenForWrite(dir) THEN Outcome(md, fsys, <<>>, ErrNotOpenWrite)
    ELSE LET out == WriteBlobs(1, dir, bl, md, fsys, <<>>, fault)
         IN IF out.err # NoErr THEN out ELSE SetLabel(out, fault)

Write ==
    \E fault \in Faults(Len(blobs)) :
        LET out == WriteOutcome(tmpDir, blobs, metadata, fs, fault)
        IN /\ metadata' = out.metadata
           /\ fs' = out.fs
           /\ calls' = out.calls
           /\ ret' = Returned("Write", out.err)
           /\ UNCHANGED <<tmpDir, blobs, fvars, svars, cvars>>

Next == Open \/ Close \/ AddAssetBlobs \/ Write

Spec == Init /\ [][Next]_vars

\* ---- Fetcher -------------------------------------------------------------
\* the process working directory and the one WithWorkingDir can set
Cwd == "/cwd"
WorkingDirs == {Cwd, "/other"}

\* asset references: one with an explicit scheme, a relative path and an
\* absolute path; a path that does not exist is an image name
URIName == "https://first-asset-uri"
PathName == "asset.tar"
AbsName == "/abs/asset.tar"
AssetNames == {URIName, PathName, AbsName}

\* references with other schemes, with none, and one url.Parse rejects
HTTPName == "http://second-asset-uri"
FileURIName == "file:///abs/asset.tar"
FTPName == "ftp://third-asset-uri"
BadName == "https://bad host"
URINames == {URIName, HTTPName, FileURIName, FTPName, PathName, BadName}

\* url.Parse(assetFile): the scheme of the reference, "" when it has none
Scheme(assetFile) ==
    IF assetFile \in {URIName, BadName} THEN "https"
    ELSE IF assetFile = HTTPName THEN "http"
    ELSE IF assetFile = FileURIName THEN "file"
    ELSE IF assetFile = FTPName THEN "ftp"
    ELSE ""

URILocator == "URILocator"
FilepathLocator == "FilepathLocator"
ImageLocator == "ImageLocator"

\* filepath.IsAbs
IsAbs(path) == path = AbsName

\* every path taken as relative to workingDir
ResolveUnderWorkingDir(workingDir, path) == workingDir \o "/" \o path

\* the path a reference names: itself when absolute, else under workingDir
Resolve(workingDir, path) ==
    IF IsAbs(path) \/ workingDir = "" THEN path ELSE workingDir \o "/" \o path

\* the paths that can exist on disk: the relative path under each working
\* directory, the absolute path, and a file named like the URI reference
DiskPaths ==
    {Resolve(wd, PathName) : wd \in WorkingDirs}
        \cup {Resolve(Cwd, AbsName), Resolve(Cwd, URIName)}

\* the rules tried in another order: an existing path first
GetLocatorTypePathFirst(assetName, workingDir, disk) ==
    IF Resolve(workingDir, assetName) \in disk THEN FilepathLocator
    ELSE IF Scheme(assetName) \in {"http", "https", "file"} THEN URILocator
    ELSE ImageLocator

\* GetLocatorType(assetName, workingDir); disk is the set of paths that exist
GetLocatorType(assetName, workingDir, disk) ==
    IF Scheme(assetName) \in {"http", "https", "file"} THEN URILocator
    ELSE IF Resolve(workingDir, assetName) \in disk THEN FilepathLocator
    ELSE ImageLocator

\* DefaultFetcherConfig, after os.Getwd succeeded
DefaultFetcherConfig ==
    [ctx |-> "Background", imagePullPolicy |-> "PullIfNotPresent", workingDir |-> Cwd]

\* WithPullPolicy, WithContext, WithWorkingDir
FetcherOptions ==
    [opt : {"WithPullPolicy"}, arg : {"PullAlways", "PullNever"}]
    \cup {[opt |-> "WithContext", arg |-> "ctx"],
          [opt |-> "WithWorkingDir", arg |-> "/other"]}

\* option(&cfg)
ApplyOption(cfg, option) ==
    IF option.opt = "WithPullPolicy" THEN [cfg EXCEPT !.imagePullPolicy = option.arg]
    ELSE IF option.opt = "WithContext" THEN [cfg EXCEPT !.ctx = option.arg]
    ELSE [cfg EXCEPT !.workingDir = option.arg]

RECURSIVE ApplyOptionsFirstWins(_, _)
\* the options applied from the last to the first
ApplyOptionsFirstWins(cfg, options) ==
    IF options = <<>> THEN cfg
    ELSE ApplyOption(ApplyOptionsFirstWins(cfg, Tail(options)), Head(options))

RECURSIVE ApplyOptions(_, _)
\* for _, option := range options { option(&cfg) }
ApplyOptions(cfg, options) ==
    IF options = <<>> THEN cfg
    ELSE ApplyOptions(ApplyOption(cfg, Head(options)), Tail(options))

\* the k objects a strategy call returns: new objects at every call
Fetched(call, k, type) == [j \in 1..k |-> [call |-> call, n |-> j, type |-> type]]

\* castOCIToReadable, castImgToReadable: each element, in order
CastToReadable(assets) == [j \in 1..Len(assets) |-> [readable |-> assets[j]]]

\* every reference handed to the image fetcher
StrategyCallImageOnly(locator, cfg, assetName, idx) ==
    [strategy |-> "FetchImageAssets", ctx |-> cfg.ctx,
     pullPolicy |-> cfg.imagePullPolicy, workingDir |-> "",
     name |-> assetName, idx |-> idx]

\* the strategy FetchAssets calls for a locator type, with its arguments
StrategyCall(locator, cfg, assetName, idx) ==
    IF locator = URILocator
    THEN [strategy |-> "FetchURIAssets", ctx |-> cfg.ctx, pullPolicy |-> "",
          workingDir |-> "", name |-> assetName, idx |-> idx]
    ELSE IF locator = FilepathLocator
    THEN [strategy |-> "FetchFileAssets", ctx |-> cfg.ctx, pullPolicy |-> "",
          workingDir |-> cfg.workingDir, name |-> assetName, idx |-> idx]
    ELSE [strategy |-> "FetchImageAssets", ctx |-> cfg.ctx,
          pullPolicy |-> cfg.imagePullPolicy, workingDir |-> "",
          name |-> assetName, idx |-> idx]

\* the new assets put in front of the result
PrependAssets(result, assets) == assets \o result

\* result = append(result, assets...)
AppendAssets(result, assets) == result \o assets

\* the next element of the range loop
NextIndex(i) == i + 1

\* the error of a strategy ignored
StrategyErrIgnored(err) == FALSE

\* if err != nil { return result, fmt.Errorf("unable to fetch asset of type ...") }
StrategyErr(err) == err

NameSeqs == UNION {[1..k -> AssetNames] : k \in 0..MaxRefs}
OptionSeqs == UNION {[1..k -> FetcherOptions] : k \in 0..MaxOpts}
Worlds ==
    [getwdErr : {FALSE}, disk : SUBSET DiskPaths] \cup {[getwdErr |-> TRUE, disk |-> {}]}

\* a call FetchAssets(assetNameList, options...) about to start
FetchInit ==
    /\ WriterInit
    /\ StrategyIdle
    /\ NoGoroutines
    /\ fNames \in NameSeqs
    /\ fOptions \in OptionSeqs
    /\ fWorld \in Worlds
    /\ fpc = "start"
    /\ fCfg = <<>>
    /\ fIdx = 0
    /\ fResult = <<>>
    /\ fErr = NoFetchErr
    /\ fCalls = <<>>

\* cfg, err := DefaultFetcherConfig(); the options applied in order
FetchConfigFails ==
    /\ fpc = "start"
    /\ fWorld.getwdErr
    /\ fResult' = <<>>
    /\ fErr' = FetchErr("unable to create asset fetcher config", <<"Getwd err">>)
    /\ fpc' = "done"
    /\ UNCHANGED <<fNames, fOptions, fWorld, fCfg, fIdx, fCalls, wvars, svars, cvars>>

FetchConfig ==
    /\ fpc = "start"
    /\ ~fWorld.getwdErr
    /\ fCfg' = ApplyOptions(DefaultFetcherConfig, fOptions)
    /\ fIdx' = 1
    /\ fpc' = "loop"
    /\ UNCHANGED <<fNames, fOptions, fWorld, fResult, fErr, fCalls, wvars, svars, cvars>>

\* one iteration of the loop over assetNameList: the strategy returns k
\* objects, or an error and none (each strategy is called with one reference
\* and returns what it fetched before its error)
FetchOne ==
    /\ fpc = "loop"
    /\ fIdx <= Len(fNames)
    /\ \E k \in 0..MaxAssets, failed \in BOOLEAN :
        /\ failed => k = 0
        /\ LET assetName == fNames[fIdx]
               locator == GetLocatorType(assetName, fCfg.workingDir, fWorld.disk)
               known == locator \in {URILocator, FilepathLocator, ImageLocator}
               assets == CastToReadable(Fetched(fIdx, k,
                             IF locator = ImageLocator THEN "image" ELSE "oci"))
           IN IF ~known
              THEN /\ fErr' = FetchErr("unable to determine asset type from name", <<assetName>>)
                   /\ fpc' = "done"
                   /\ UNCHANGED <<fResult, fIdx, fCalls>>
              ELSE /\ fCalls' = Append(fCalls,
                                 [call |-> StrategyCall(locator, fCfg, assetName, fIdx),
                                  returned |-> k, failed |-> failed])
                   /\ IF StrategyErr(failed)
                      THEN /\ fErr' = FetchErr("unable to fetch asset of type",
                                             <<locator, StrategyCause>>)
                           /\ fpc' = "done"
                           /\ UNCHANGED <<fResult, fIdx>>
                      ELSE /\ fResult' = AppendAssets(fResult, assets)
                           /\ fIdx' = NextIndex(fIdx)
                           /\ UNCHANGED <<fErr, fpc>>
    /\ UNCHANGED <<fNames, fOptions, fWorld, fCfg, wvars, svars, cvars>>

\* return result, nil
FetchReturn ==
    /\ fpc = "loop"
    /\ fIdx > Len(fNames)
    /\ fErr' = NoFetchErr
    /\ fpc' = "done"
    /\ UNCHANGED <<fNames, fOptions, fWorld, fCfg, fIdx, fResult, fCalls, wvars, svars, cvars>>

FetchNext == FetchConfigFails \/ FetchConfig \/ FetchOne \/ FetchReturn

FetchSpec == FetchInit /\ [][FetchNext]_vars

\* ---- FetchAssets called from two goroutines on one Fetcher ---------------
Invocations == {1, 2}

ConcurrentNames == {URIName, PathName}
ConcurrentNameSeqs == UNION {[1..k -> ConcurrentNames] : k \in 0..MaxRefs}
ConcurrentOptionSeqs ==
    {<<>>,
     <<[opt |-> "WithWorkingDir", arg |-> "/other"]>>,
     <<[opt |-> "WithPullPolicy", arg |-> "PullAlways"],
       [opt |-> "WithContext", arg |-> "ctx"]>>}

\* the process' working directory and disk, the same for both goroutines
ConcurrentWorlds ==
    [getwdErr : {FALSE}, disk : SUBSET {Resolve(wd, PathName) : wd \in WorkingDirs}]
        \cup {[getwdErr |-> TRUE, disk |-> {}]}

\* the parameters and locals of one invocation: assetNameList, options,
\* cfg, the loop index, result, err, and the strategy calls it has made
Locals(assetNameList, options) ==
    [names |-> assetNameList, options |-> options, pc |-> "start", cfg |-> <<>>,
     idx |-> 0, result |-> <<>>, err |-> NoFetchErr, calls |-> <<>>]

\* cfg kept in one place for every invocation
StoreConfigShared(gs, g, cfg) == [h \in DOMAIN gs |-> [gs[h] EXCEPT !.cfg = cfg]]

\* cfg, err := DefaultFetcherConfig(): a local of the invocation, and the
\* receiver a copy of the Fetcher
StoreConfig(gs, g, cfg) == [gs EXCEPT ![g].cfg = cfg]

ConcurrentFetchInit ==
    /\ WriterInit
    /\ StrategyIdle
    /\ fWorld \in ConcurrentWorlds
    /\ fNames = <<>>
    /\ fOptions = <<>>
    /\ fpc = "idle"
    /\ fCfg = <<>>
    /\ fIdx = 0
    /\ fResult = <<>>
    /\ fErr = NoFetchErr
    /\ fCalls = <<>>
    /\ \E n1, n2 \in ConcurrentNameSeqs, o1, o2 \in ConcurrentOptionSeqs :
          goroutines = (1 :> Locals(n1, o1)) @@ (2 :> Locals(n2, o2))

\* goroutine g: DefaultFetcherConfig fails
GoFetchConfigFails(g) ==
    /\ goroutines[g].pc = "start"
    /\ fWorld.getwdErr
    /\ goroutines' = [goroutines EXCEPT
                         ![g].result = <<>>,
                         ![g].err = FetchErr("unable to create asset fetcher config",
                                             <<"Getwd err">>),
                         ![g].pc = "done"]
    /\ UNCHANGED <<wvars, fvars, svars>>

\* goroutine g: its cfg made and its options applied
GoFetchConfig(g) ==
    /\ goroutines[g].pc = "start"
    /\ ~fWorld.getwdErr
    /\ goroutines' = [StoreConfig(goroutines, g,
                          ApplyOptions(DefaultFetcherConfig, goroutines[g].options))
                         EXCEPT ![g].idx = 1, ![g].pc = "loop"]
    /\ UNCHANGED <<wvars, fvars, svars>>

\* goroutine g: one iteration of its loop; the strategy returns one object
\* for the reference, or an error and none
GoFetchOne(g) ==
    /\ goroutines[g].pc = "loop"
    /\ goroutines[g].idx <= Len(goroutines[g].names)
    /\ \E failed \in BOOLEAN :
          LET l == goroutines[g]
              assetName == l.names[l.idx]
              locator == GetLocatorType(assetName, l.cfg.workingDir, fWorld.disk)
              known == locator \in {URILocator, FilepathLocator, ImageLocator}
              k == IF failed THEN 0 ELSE 1
              assets == CastToReadable(Fetched(<<g, l.idx>>, k,
                            IF locator = ImageLocator THEN "image" ELSE "oci"))
              called == Append(l.calls,
                               [call |-> StrategyCall(locator, l.cfg, assetName, l.idx),
                                returned |-> k, failed |-> failed])
          IN IF ~known
             THEN goroutines' = [goroutines EXCEPT
                      ![g].err = FetchErr("unable to determine asset type from name",
                                          <<assetName>>),
                      ![g].pc = "done"]
             ELSE IF StrategyErr(failed)
             THEN goroutines' = [goroutines EXCEPT
                      ![g].calls = called,
                      ![g].err = FetchErr("unable to fetch asset of type",
                                          <<locator, StrategyCause>>),
                      ![g].pc = "done"]
             ELSE goroutines' = [goroutines EXCEPT
                      ![g].calls = called,
                      ![g].result = AppendAssets(l.result, assets),
                      ![g].idx = NextIndex(l.idx)]
    /\ UNCHANGED <<wvars, fvars, svars>>

\* goroutine g: return result, nil
GoFetchReturn(g) ==
    /\ goroutines[g].pc = "loop"
    /\ goroutines[g].idx > Len(goroutines[g].names)
    /\ goroutines' = [goroutines EXCEPT ![g].err = NoFetchErr, ![g].pc = "done"]
    /\ UNCHANGED <<wvars, fvars, svars>>

ConcurrentFetchNext ==
    \E g \in Invocations :
        GoFetchConfigFails(g) \/ GoFetchConfig(g) \/ GoFetchOne(g) \/ GoFetchReturn(g)

ConcurrentFetchSpec == ConcurrentFetchInit /\ [][ConcurrentFetchNext]_vars

\* ---- AddAssetBlobs called from two goroutines on one writer --------------
\* AddAssetBlobs takes no lock: the append reads lw.blobs and stores the
\* longer slice, the map assignment is a write to lw.metadata, and the two
\* callers' steps interleave. A map write that overlaps another either ends
\* the process ("fatal error: concurrent map writes") or goes undetected.
AddLocals(aBlobs) == [aBlobs |-> aBlobs, pc |-> "read", seen |-> <<>>]

\* another goroutine is inside its write to lw.metadata
MapWriteOverlaps(gs, g) == \E h \in DOMAIN gs : h # g /\ gs[h].pc = "recording"

\* two callers, each with one readable blob, on a new writer
ConcurrentAddInit ==
    /\ WriterInit
    /\ FetchIdle
    /\ StrategyIdle
    /\ \E b1, b2 \in {b \in Blob : ~b.openErr} :
          goroutines = (1 :> AddLocals(<<b1>>)) @@ (2 :> AddLocals(<<b2>>))

AddAssetBlobsReturned == \A g \in DOMAIN goroutines : goroutines[g].pc = "done"

\* goroutine g: append's read of lw.blobs
GoAddRead(g) ==
    /\ goroutines[g].pc = "read"
    /\ goroutines' = [goroutines EXCEPT ![g].seen = blobs, ![g].pc = "append"]
    /\ UNCHANGED <<wvars, fvars, svars>>

\* goroutine g: lw.blobs = append(lw.blobs, aBlobs...), on the slice it read
GoAddAppend(g) ==
    /\ goroutines[g].pc = "append"
    /\ blobs' = AppendBlobs(goroutines[g].seen, goroutines[g].aBlobs)
    /\ goroutines' = [goroutines EXCEPT ![g].pc = "record"]
    /\ UNCHANGED <<tmpDir, metadata, fs, calls, ret, fvars, svars>>

\* goroutine g: the write to lw.metadata begins; the runtime may detect
\* that another write is under way
GoAddRecordBegin(g) ==
    /\ goroutines[g].pc = "record"
    /\ \E detected \in BOOLEAN :
          /\ detected => MapWriteOverlaps(goroutines, g)
          /\ goroutines' = IF detected
                           THEN [h \in DOMAIN goroutines |->
                                    [goroutines[h] EXCEPT !.pc = "fatal"]]
                           ELSE [goroutines EXCEPT ![g].pc = "recording"]
    /\ UNCHANGED <<wvars, fvars, svars>>

\* goroutine g: lw.metadata[Sha256] = ToAssetValue(""), and the return
GoAddRecord(g) ==
    /\ goroutines[g].pc = "recording"
    /\ metadata' = RecordMetadata(metadata, goroutines[g].aBlobs)
    /\ goroutines' = [goroutines EXCEPT ![g].pc = "done"]
    /\ ret' = [op |-> "AddAssetBlobs", err |-> NoErr, args |-> goroutines[g].aBlobs]
    /\ calls' = <<>>
    /\ UNCHANGED <<tmpDir, blobs, fs, fvars, svars>>

\* Open and Write by one caller once both AddAssetBlobs calls have returned
ConcurrentAddNext ==
    \/ \E g \in Invocations :
          GoAddRead(g) \/ GoAddAppend(g) \/ GoAddRecordBegin(g) \/ GoAddRecord(g)
    \/ (AddAssetBlobsReturned /\ Open)
    \/ (AddAssetBlobsReturned /\ Write)

ConcurrentAddSpec == ConcurrentAddInit /\ [][ConcurrentAddNext]_vars

\* ---- FetchURIAssets ------------------------------------------------------
Contexts == {"Background", "ctx"}

\* the two fetchers of src/internal/asset that implement FetchURIAssets
URIFetchers == {"PackageURLFetcher", "AssetURIFetcher"}

\* url.Parse(assetFile) returning an error
ParseFails(assetFile) == assetFile = BadName

\* paths.URIToFilePath(uri.String())
URIToFilePath(uri) == IF uri = FileURIName THEN AbsName ELSE uri

\* oci.NewLayoutPackage(assetBlob), ocipackage.NewOCILayoutPackage(assetBlob)
NewLayoutPackage(assetBlob) == [layout |-> assetBlob]

\* the k packages a successful FetchFileAssets call returns for a path
FileFetched(path, k) == [j \in 1..k |-> [layout |-> [file |-> path, n |-> j]]]

\* what the environment does at one reference: nothing, with the file
\* fetcher returning k packages, or the failure of one collaborator
URIEnv ==
    [fault : {"none"}, k : 0..MaxAssets]
        \cup [fault : {"Download", "NewLayoutPackage", "URIToFilePath", "FetchFileAssets"},
              k : {0}]

SCall(op, at, arg, err) == [op |-> op, at |-> at, arg |-> arg, err |-> err]

URIReturned(result, err, panicked, at, log) ==
    [fn |-> "FetchURIAssets", result |-> result, err |-> err,
     panicked |-> panicked, at |-> at, calls |-> log]

\* every scheme but "file" handed to the downloader
IsDownloadSchemeAny(scheme) == scheme # "file"

\* case "http", "https":
IsDownloadScheme(scheme) == scheme \in {"http", "https"}

\* case "file":
IsFileScheme(scheme) == scheme = "file"

RECURSIVE FetchURIAssetsFrom(_, _, _, _, _, _, _)
\* for _, assetFile := range uriAssets { ... }: the iterations from i on
FetchURIAssetsFrom(i, fetcher, ctx, uriAssets, env, result, log) ==
    IF i > Len(uriAssets) THEN URIReturned(result, NoErr, FALSE, i, log)
    ELSE
    LET assetFile == uriAssets[i]
        fault == env[i].fault
        dl == Append(log, SCall("Download", i, [ctx |-> ctx, uri |-> assetFile],
                                fault = "Download"))
        pkg == Append(dl, SCall("NewLayoutPackage", i, [blob |-> assetFile],
                                fault = "NewLayoutPackage"))
        assetFilePath == URIToFilePath(assetFile)
        conv == Append(log, SCall("URIToFilePath", i, assetFile, fault = "URIToFilePath"))
        ff == Append(conv, SCall("FetchFileAssets", i,
                                 [ctx |-> ctx, workingDir |-> "", path |-> assetFilePath],
                                 fault = "FetchFileAssets"))
    IN IF ParseFails(assetFile)
       THEN URIReturned(result, "unable to parse asset url", FALSE, i, log)
       ELSE IF IsDownloadScheme(Scheme(assetFile))
       THEN IF fault = "Download"
            THEN URIReturned(result, "unable to download asset", FALSE, i, dl)
            ELSE IF fault = "NewLayoutPackage"
            THEN IF fetcher = "AssetURIFetcher"
                 THEN URIReturned(<<>>, "panic", TRUE, i, pkg)
                 ELSE URIReturned(result, "error opening asset package in OCI format",
                                  FALSE, i, pkg)
            ELSE FetchURIAssetsFrom(i + 1, fetcher, ctx, uriAssets, env,
                     Append(result, NewLayoutPackage([blob |-> assetFile])), pkg)
       ELSE IF IsFileScheme(Scheme(assetFile))
       THEN IF fault = "URIToFilePath"
            THEN URIReturned(result, "unable to get asset filepath", FALSE, i, conv)
            ELSE IF fault = "FetchFileAssets"
            THEN URIReturned(result, "unable to fetch local file asset", FALSE, i, ff)
            ELSE FetchURIAssetsFrom(i + 1, fetcher, ctx, uriAssets, env,
                     result \o FileFetched(assetFilePath, env[i].k), ff)
       ELSE URIReturned(result, "unable to handle url scheme", FALSE, i, log)

URIRefSeqs == UNION {[1..k -> URINames] : k \in 0..MaxRefs}

\* a call FetchURIAssets(ctx, uriAssets...) about to start
URICalls == [fn : {"FetchURIAssets"}, fetcher : URIFetchers, ctx : Contexts,
             uriAssets : URIRefSeqs]

\* PackageURLFetcher.FetchURIAssets, AssetURIFetcher.FetchURIAssets
FetchURIAssets ==
    /\ sCall.fn = "FetchURIAssets"
    /\ sRet = NotReturned
    /\ \E env \in [1..Len(sCall.uriAssets) -> URIEnv] :
          sRet' = FetchURIAssetsFrom(1, sCall.fetcher, sCall.ctx, sCall.uriAssets,
                                     env, <<>>, <<>>)
    /\ UNCHANGED <<sCall, wvars, fvars, cvars>>

\* ---- FetchImageAssets ----------------------------------------------------
ImageNames == {"first-asset-image", "second-asset-image"}
PullPolicies == {"PullAlways", "PullIfNotPresent", "PullNever"}

\* the default policy passed instead of the caller's
FetchArgsDefaultPolicy(ctx, imageName, pullPolicy) ==
    [ctx |-> ctx, name |-> imageName, daemon |-> TRUE, pullPolicy |-> "PullIfNotPresent"]

\* af.ImgFetcher.Fetch(ctx, imageName, true, pullPolicy)
FetchArgs(ctx, imageName, pullPolicy) ==
    [ctx |-> ctx, name |-> imageName, daemon |-> TRUE, pullPolicy |-> pullPolicy]

ImageReturned(result, err, log) ==
    [fn |-> "FetchImageAssets", result |-> result, err |-> err, calls |-> log]

RECURSIVE FetchImageAssetsFrom(_, _, _, _, _, _, _)
\* for _, imageName := range imageNames { ... }: the iterations from i on;
\* the Fetch call number failAt returns an error
FetchImageAssetsFrom(i, ctx, pullPolicy, imageNames, failAt, result, log) ==
    IF i > Len(imageNames) THEN ImageReturned(result, NoErr, log)
    ELSE
    LET imageName == imageNames[i]
        log1 == Append(log, SCall("Fetch", i, FetchArgs(ctx, imageName, pullPolicy),
                                  failAt = i))
    IN IF failAt = i
       THEN ImageReturned(result, "unable to fetch asset image", log1)
       ELSE FetchImageAssetsFrom(i + 1, ctx, pullPolicy, imageNames, failAt,
                                 Append(result, [image |-> imageName, fetch |-> i]), log1)

ImageNameSeqs == UNION {[1..k -> ImageNames] : k \in 0..MaxRefs}

ImageCalls == [fn : {"FetchImageAssets"}, ctx : Contexts, pullPolicy : PullPolicies,
               imageNames : ImageNameSeqs]

\* AssetImageFetcher.FetchImageAssets
FetchImageAssets ==
    /\ sCall.fn = "FetchImageAssets"
    /\ sRet = NotReturned
    /\ \E failAt \in 0..Len(sCall.imageNames) :
          sRet' = FetchImageAssetsFrom(1, sCall.ctx, sCall.pullPolicy, sCall.imageNames,
                                       failAt, <<>>, <<>>)
    /\ UNCHANGED <<sCall, wvars, fvars, cvars>>

\* ---- FetchFileAssets -----------------------------------------------------
\* a working directory that does not exist, a file name that cannot exist
InvalidDir == "/invalid-dir/:::"
ImpossibleFileName == "::::"
FileWorkingDirs == {Cwd, InvalidDir, ""}
FileAssets == {PathName, AbsName, ImpossibleFileName}

\* what is at a path: an OCI-layout package, other contents, or nothing
FileKinds == {"oci", "random", "missing"}
FileDisks == [{Resolve(Cwd, PathName), AbsName} -> FileKinds]

KindAt(disk, path) == IF path \in DOMAIN disk THEN disk[path] ELSE "missing"

FileReturned(result, err, path) ==
    [fn |-> "FetchFileAssets", result |-> result, err |-> err, path |-> path]

\* FetchFileAssets(ctx, workingDir, fileAsset) for one path
FetchFileAssetsOf(workingDir, fileAsset, disk) ==
    LET path == Resolve(workingDir, fileAsset)
    IN IF KindAt(disk, path) = "missing"
       THEN FileReturned(<<>>, "unable to fetch file asset", path)
       ELSE IF KindAt(disk, path) # "oci"
       THEN FileReturned(<<>>, "unable to read asset as OCI blob", path)
       ELSE FileReturned(<<NewLayoutPackage([file |-> path])>>, NoErr, path)

FileCalls == [fn : {"FetchFileAssets"}, ctx : Contexts, workingDir : FileWorkingDirs,
              fileAsset : FileAssets, disk : FileDisks]

\* PackageFileFetcher.FetchFileAssets
FetchFileAssets ==
    /\ sCall.fn = "FetchFileAssets"
    /\ sRet = NotReturned
    /\ sRet' = FetchFileAssetsOf(sCall.workingDir, sCall.fileAsset, sCall.disk)
    /\ UNCHANGED <<sCall, wvars, fvars, cvars>>

\* one call of one strategy, about to start
StrategyInit ==
    /\ WriterInit
    /\ FetchIdle
    /\ NoGoroutines
    /\ sCall \in URICalls \cup ImageCalls \cup FileCalls
    /\ sRet = NotReturned

StrategyNext == FetchURIAssets \/ FetchImageAssets \/ FetchFileAssets

StrategySpec == StrategyInit /\ [][StrategyNext]_vars

Range(seq) == {seq[i] : i \in 1..Len(seq)}

\* ---- properties of the layer writer --------------------------------------
Sha256s(bl) == {bl[i].descriptor.Sha256 : i \in 1..Len(bl)}

DistinctSha256s(bl) ==
    \A i, j \in 1..Len(bl) : i # j => bl[i].descriptor.Sha256 # bl[j].descriptor.Sha256

\* the last blob of bl that declares sha
LastWith(bl, sha) ==
    bl[CHOOSE i \in 1..Len(bl) :
          /\ bl[i].descriptor.Sha256 = sha
          /\ \A j \in (i + 1)..Len(bl) : bl[j].descriptor.Sha256 # sha]

CallsOf(log, op) == SelectSeq(log, LAMBDA c : c.op = op)

WriteSucceeded == ret = Returned("Write", NoErr)

\* the AssetMap decoded from the label the last Write set
LabelMap == DecodeAssetMap(calls[Len(calls)].arg)

\* C1: after a successful Write of n >= 1 blobs with pairwise distinct
\* declared hashes, AddLayerWithDiffID was called exactly n times, once per
\* blob in the order the blobs were added, with the blob's layer file and
\* "sha256:" + the hash of the layer that holds the blob's content; the label
\* decodes to an AssetMap with exactly n entries, one per declared hash, and
\* each entry's LayerDiffID is "sha256:" + the hash of the bytes in the blob's
\* layer file, which is not the declared hash.
C1_OneLayerPerBlob ==
    (WriteSucceeded /\ blobs # <<>> /\ DistinctSha256s(blobs)) =>
        LET adds == CallsOf(calls, "AddLayerWithDiffID")
        IN /\ Len(adds) = Len(blobs)
           /\ calls[Len(calls)].op = "SetLabel"
           /\ DOMAIN LabelMap = Sha256s(blobs)
           /\ Cardinality(DOMAIN LabelMap) = Len(blobs)
           /\ \A i \in 1..Len(blobs) :
                LET sha == blobs[i].descriptor.Sha256
                    written == fs[tmpDir][sha]
                IN /\ adds[i].at = i
                   /\ adds[i].path = <<tmpDir, sha>>
                   /\ written = ToAssetTar(sha, blobs[i].content)
                   /\ adds[i].arg = "sha256:" \o ToString(written)
                   /\ LabelMap[sha].LayerDiffID = "sha256:" \o ToString(written)
                   /\ LabelMap[sha].LayerDiffID \notin {sha, "sha256:" \o sha}

C1_Witness == WriteSucceeded /\ Len(blobs) = 2 /\ DistinctSha256s(blobs)

\* C2: after a successful Write, for a declared hash that two or more blobs
\* share, the AssetMap entry (in the writer's metadata and in the label) has
\* the identity fields of the later blob and the diff-id of the later blob's
\* layer, and the layer file of that hash holds the later blob's content.
C2_LastWriteWins ==
    WriteSucceeded =>
        \A i, j \in 1..Len(blobs) :
            (i < j /\ blobs[i].descriptor.Sha256 = blobs[j].descriptor.Sha256) =>
                LET sha == blobs[j].descriptor.Sha256
                    B2 == LastWith(blobs, sha)
                    layer == ToAssetTar(sha, B2.content)
                IN /\ metadata[sha].ID = B2.descriptor.ID
                   /\ metadata[sha].LayerDiffID = "sha256:" \o ToString(layer)
                   /\ LabelMap[sha] = metadata[sha]
                   /\ fs[tmpDir][sha] = layer

C2_Witness ==
    /\ WriteSucceeded
    /\ Len(blobs) = 2
    /\ blobs[1].descriptor.Sha256 = blobs[2].descriptor.Sha256
    /\ blobs[1].descriptor.ID # blobs[2].descriptor.ID
    /\ blobs[1].content # blobs[2].content

\* C3: in the calls of one Write no AddLayerWithDiffID call follows a SetLabel
\* call and SetLabel is called at most once; when the Write succeeds SetLabel
\* was called exactly once, with the key "io.buildpacks.asset.layers", as the
\* last call.
C3_LabelOnceAfterLayers ==
    ret.op = "Write" =>
        /\ Len(CallsOf(calls, "SetLabel")) <= 1
        /\ \A i, j \in 1..Len(calls) :
              (calls[i].op = "SetLabel" /\ i < j) => calls[j].op # "AddLayerWithDiffID"
        /\ WriteSucceeded =>
              /\ Len(CallsOf(calls, "SetLabel")) = 1
              /\ calls[Len(calls)].op = "SetLabel"
              /\ calls[Len(calls)].path = LayersLabel

C3_Witness == WriteSucceeded /\ Len(CallsOf(calls, "AddLayerWithDiffID")) = 2

\* C4: when a step of Write fails for a blob (OpenFile, the blob's Open or
\* AddLayerWithDiffID), that failing call is the last call of the Write: no
\* later blob is opened or registered, SetLabel is not called, and Write
\* returns an error.
BlobSteps == {"OpenFile", "Blob.Open", "AddLayerWithDiffID"}

C4_FailFast ==
    ret.op = "Write" =>
        \A i \in 1..Len(calls) :
            (calls[i].op \in BlobSteps /\ calls[i].err) =>
                /\ i = Len(calls)
                /\ ret.err \in {ErrCreateLayer, ErrWriteLayer}
                /\ CallsOf(calls, "SetLabel") = <<>>
                /\ \A j \in 1..Len(calls) : calls[j].at <= calls[i].at

C4_Witness ==
    /\ ret = Returned("Write", ErrCreateLayer)
    /\ Len(blobs) = 2
    /\ blobs[1].openErr
    /\ calls[Len(calls)].op = "Blob.Open"

\* C5: a Write on a writer that is not open returns the not-open error, makes
\* no call on the target, opens no blob and creates no file, and leaves the
\* blob sequence, the metadata and the file system unchanged.
C5_WriteNotOpen ==
    [][(ret'.op = "Write" /\ tmpDir = NoDir) =>
          /\ ret'.err = ErrNotOpenWrite
          /\ calls' = <<>>
          /\ UNCHANGED <<tmpDir, blobs, metadata, fs>>]_vars

C5_Witness ==
    /\ ret = Returned("Write", ErrNotOpenWrite)
    /\ blobs # <<>>
    /\ \E sha \in DOMAIN metadata : metadata[sha].LayerDiffID # EmptyDiffID

\* C6: an Open on a writer that is already open returns the already-open
\* error, creates no directory and leaves lw.tmpDir as it was.
C6_OpenAlreadyOpen ==
    [][(ret'.op = "Open" /\ tmpDir # NoDir) =>
          /\ ret'.err = ErrAlreadyOpen
          /\ tmpDir' = tmpDir
          /\ fs' = fs]_vars

C6_Witness ==
    /\ ret = Returned("Open", ErrAlreadyOpen)
    /\ tmpDir \in DOMAIN fs
    /\ \E sha \in Hashes : fs[tmpDir][sha] # NoFile

\* C7: a Close on a writer that is not open returns the not-open error and
\* deletes nothing; a Close that directly follows a successful Close fails.
C7_CloseNotOpen ==
    [][/\ (ret'.op = "Close" /\ tmpDir = NoDir) =>
             /\ ret'.err = ErrNotOpenClose
             /\ UNCHANGED <<tmpDir, fs>>
       /\ (ret = Returned("Close", NoErr) /\ ret'.op = "Close") =>
             ret'.err = ErrNotOpenClose]_vars

C7_Witness == ret = Returned("Close", ErrNotOpenClose) /\ blobs # <<>>

\* C8: a successful Close was made on an open writer, removes its workspace
\* and clears lw.tmpDir; the operation that follows it finds the writer
\* Unopened: a Write returns the not-open error, a Close the not-open error,
\* and an Open is not refused as already open and, when ioutil.TempDir
\* succeeds, returns nil with a newly created, empty workspace.
C8_CloseReturnsToUnopened ==
    [][/\ (ret'.op = "Close" /\ ret'.err = NoErr) =>
             /\ tmpDir # NoDir
             /\ tmpDir \notin DOMAIN fs'
             /\ tmpDir' = NoDir
       /\ (ret = Returned("Close", NoErr) /\ ret'.op = "Write") =>
             ret'.err = ErrNotOpenWrite
       /\ (ret = Returned("Close", NoErr) /\ ret'.op = "Open") =>
             /\ ret'.err \in {NoErr, ErrTempDir}
             /\ ret'.err = NoErr =>
                   /\ tmpDir' \in DirIds
                   /\ tmpDir' \notin DOMAIN fs
                   /\ tmpDir' \in DOMAIN fs'
                   /\ fs'[tmpDir'] = EmptyDir]_vars

\* an Open that succeeded after a Write had registered a layer: a second
\* Open/Close cycle
C8_Witness ==
    /\ ret = Returned("Open", NoErr)
    /\ \E sha \in DOMAIN metadata : metadata[sha].LayerDiffID # EmptyDiffID

\* C9 as stated: after every Close made on an open writer, failed or not, the
\* workspace no longer exists.
C9_RemovedOnEveryExit ==
    (ret.op = "Close" /\ ret.err # ErrNotOpenClose) => DOMAIN fs = {}

\* C9, amended: after a Close that returned nil no workspace exists, whatever
\* was done between Open and Close; a writer that is Unopened has no
\* workspace; an open writer has exactly its own workspace.
C9_RemovedOnSuccess ==
    /\ ret = Returned("Close", NoErr) => DOMAIN fs = {}
    /\ tmpDir = NoDir => DOMAIN fs = {}
    /\ tmpDir # NoDir => DOMAIN fs = {tmpDir}

\* a successful Close after a Write that had written layers
C9_Witness ==
    /\ ret = Returned("Close", NoErr)
    /\ \E sha \in DOMAIN metadata : metadata[sha].LayerDiffID # EmptyDiffID
    /\ \E i \in 1..Len(blobs) : blobs[i].openErr

\* ---- the target read back ------------------------------------------------
\* the last element of a non-empty set of indexes
Last(at) == CHOOSE i \in at : \A j \in at : j <= i

\* Readable.Label(name) on the target of the calls in log: the value of the
\* last SetLabel(name, value)
Label(log, name) ==
    LET at == {i \in 1..Len(log) : log[i].op = "SetLabel" /\ log[i].path = name}
    IN IF at = {} THEN <<>> ELSE log[Last(at)].arg

\* Readable.GetLayer(diffID) on the target of the calls in log: the contents
\* of the file registered with AddLayerWithDiffID(path, diffID)
GetLayer(log, fsys, diffID) ==
    LET at == {i \in 1..Len(log) : log[i].op = "AddLayerWithDiffID" /\ log[i].arg = diffID}
    IN IF at = {} THEN NoFile
       ELSE fsys[log[Last(at)].path[1]][log[Last(at)].path[2]]

C20_OneLayerPerDistinctHash ==
    WriteSucceeded =>
        Len(CallsOf(calls, "AddLayerWithDiffID")) = Cardinality(Sha256s(blobs))

\* ---- the writer over several operations ----------------------------------
\* C21 as stated, for two Writes in a row: a blob that a Write registered as
\* a layer is neither opened nor registered by the Write that follows it.
C21_ConsumedOnce ==
    [][(ret.op = "Write" /\ ret'.op = "Write") =>
          \A i \in 1..Len(calls), j \in 1..Len(calls') :
              ~(/\ calls[i].op = "AddLayerWithDiffID"
                /\ ~calls[i].err
                /\ calls'[j].op \in {"Blob.Open", "AddLayerWithDiffID"}
                /\ calls'[j].at = calls[i].at)]_vars

\* C22: the metadata starts empty; a step gives an entry a diff-id it did not
\* have only if the step is a Write that, for a blob declaring the entry's
\* hash, created the layer file of that hash in the workspace, opened the
\* blob and registered the file with AddLayerWithDiffID under exactly that
\* diff-id, the hash of the blob's layer (the file still holds that layer
\* unless a later blob of the Write rewrote it); every entry an
\* AddAssetBlobs sets has an empty LayerDiffID.
C22_DiffIDOnlyAfterWrite ==
    [][\A sha \in DOMAIN metadata' :
          LET d == metadata'[sha].LayerDiffID
              was == IF sha \in DOMAIN metadata THEN metadata[sha].LayerDiffID
                     ELSE EmptyDiffID
          IN /\ (d # EmptyDiffID /\ d # was) =>
                   /\ ret'.op = "Write"
                   /\ \E j \in 1..Len(calls') :
                         LET c == calls'[j]
                         IN /\ c.op = "AddLayerWithDiffID"
                            /\ ~c.err
                            /\ c.path = <<tmpDir, sha>>
                            /\ c.arg = d
                            /\ blobs[c.at].descriptor.Sha256 = sha
                            /\ d = "sha256:" \o ToString(ToAssetTar(sha, blobs[c.at].content))
                            /\ \E i \in 1..(j - 1) :
                                  /\ calls'[i].op = "OpenFile"
                                  /\ ~calls'[i].err
                                  /\ calls'[i].at = c.at
                                  /\ calls'[i].path = c.path
                            /\ (\A i \in (j + 1)..Len(calls') :
                                   calls'[i].op = "OpenFile" =>
                                       (calls'[i].err \/ calls'[i].path # c.path)) =>
                                  fs'[tmpDir][sha] = ToAssetTar(sha, blobs[c.at].content)
             /\ (ret'.op = "AddAssetBlobs"
                   /\ \E i \in 1..Len(ret'.args) : ret'.args[i].descriptor.Sha256 = sha) =>
                   d = EmptyDiffID]_vars

\* an AddAssetBlobs after a Write: an entry with a diff-id and one without
C22_Witness ==
    /\ ret.op = "AddAssetBlobs"
    /\ Len(ret.args) = 1
    /\ \E sha \in DOMAIN metadata : metadata[sha].LayerDiffID # EmptyDiffID
    /\ metadata[ret.args[1].descriptor.Sha256].LayerDiffID = EmptyDiffID

\* another run: a new writer given the blobs bl, opened on dir, whose Write
\* meets no failure
SecondRun(dir, bl) ==
    WriteOutcome(dir, bl, RecordMetadata(<<>>, bl), (dir :> EmptyDir), NoFault)

\* the diff-ids passed to AddLayerWithDiffID, in call order
DiffIDs(log) ==
    LET adds == CallsOf(log, "AddLayerWithDiffID")
    IN [i \in 1..Len(adds) |-> adds[i].arg]

\* the same blobs with the identity fields of another asset
OtherID(id) == IF id = "first-asset" THEN "first-asset-replace" ELSE "first-asset"
Renamed(bl) == [i \in 1..Len(bl) |-> [bl[i] EXCEPT !.descriptor.ID = OtherID(@)]]

DeterministicDiffIDs(dir2) ==
    /\ DiffIDs(SecondRun(dir2, blobs).calls) = DiffIDs(calls)
    /\ DiffIDs(SecondRun(dir2, Renamed(blobs)).calls) = DiffIDs(calls)
    /\ \A i \in 1..Len(blobs) :
          DiffIDs(SecondRun(dir2, <<blobs[i]>>).calls) = <<DiffIDs(calls)[i]>>

C24_NoRollback ==
    [][(ret'.op = "Write" /\ ret'.err \in {ErrCreateLayer, ErrWriteLayer}) =>
          LET k == calls'[Len(calls')].at
              before == {blobs[i].descriptor.Sha256 : i \in 1..(k - 1)}
          IN /\ blobs' = blobs
             /\ \A i \in 1..(k - 1) :
                   LET sha == blobs[i].descriptor.Sha256
                       last == LastWith(SubSeq(blobs, 1, k - 1), sha)
                   IN /\ \E c \in Range(calls') :
                            /\ c.op = "AddLayerWithDiffID"
                            /\ c.at = i
                            /\ ~c.err
                            /\ c.arg = "sha256:" \o ToString(ToAssetTar(sha, blobs[i].content))
                      /\ metadata'[sha].LayerDiffID =
                            "sha256:" \o ToString(ToAssetTar(sha, last.content))
                      /\ fs'[tmpDir][sha] # NoFile
             /\ \A sha \in (DOMAIN metadata) \ before : metadata'[sha] = metadata[sha]]_vars

C24_Witness ==
    /\ ret = Returned("Write", ErrWriteLayer)
    /\ Len(blobs) = 2
    /\ blobs[1].descriptor.Sha256 # blobs[2].descriptor.Sha256
    /\ calls[Len(calls)].at = 2
    /\ metadata[blobs[1].descriptor.Sha256].LayerDiffID # EmptyDiffID
    /\ metadata[blobs[2].descriptor.Sha256].LayerDiffID = EmptyDiffID

C28_MetadataKeys ==
    /\ DOMAIN metadata = Sha256s(blobs)
    /\ \A i \in 1..Len(blobs) : blobs[i].descriptor.Sha256 \in DOMAIN metadata
    /\ ret.err # ErrUnknownAsset

\* a Write over blobs added by two AddAssetBlobs calls, one before Open
C28_Witness ==
    /\ ret.op = "Write"
    /\ Sha256s(blobs) = Hashes
    /\ DOMAIN metadata = Hashes
    /\ metadata["first-sha256"].LayerDiffID # EmptyDiffID
    /\ metadata["second-sha256"].LayerDiffID = EmptyDiffID

\* C29: an AddAssetBlobs(b1..bk), whether the writer is open or not, leaves
\* lw.tmpDir and the workspace alone, makes lw.blobs the old sequence
\* followed by b1..bk (k longer, duplicates kept), sets the entry of every
\* hash declared among b1..bk to the identity fields of the last of b1..bk
\* that declares it, with an empty LayerDiffID, whatever the entry held, and
\* leaves the other entries as they were.
C29_AddAssetBlobs ==
    [][ret'.op = "AddAssetBlobs" =>
          LET aBlobs == ret'.args
              added == {aBlobs[i].descriptor.Sha256 : i \in 1..Len(aBlobs)}
          IN /\ UNCHANGED <<tmpDir, fs>>
             /\ ret'.err = NoErr
             /\ Len(blobs') = Len(blobs) + Len(aBlobs)
             /\ SubSeq(blobs', 1, Len(blobs)) = blobs
             /\ SubSeq(blobs', Len(blobs) + 1, Len(blobs')) = aBlobs
             /\ DOMAIN metadata' = (DOMAIN metadata) \cup added
             /\ \A sha \in added :
                   metadata'[sha] = [ID |-> LastWith(aBlobs, sha).descriptor.ID,
                                     LayerDiffID |-> ""]
             /\ \A sha \in (DOMAIN metadata) \ added : metadata'[sha] = metadata[sha]]_vars

\* a blob added to an open writer under a hash whose layer an earlier Write
\* had written
C29_Witness ==
    /\ ret.op = "AddAssetBlobs"
    /\ Len(ret.args) = 1
    /\ Len(blobs) = 2
    /\ blobs[1].descriptor.Sha256 = blobs[2].descriptor.Sha256
    /\ tmpDir # NoDir
    /\ fs[tmpDir][blobs[2].descriptor.Sha256] = ToAssetTar(blobs[1].descriptor.Sha256,
                                                            blobs[1].content)
    /\ metadata[blobs[2].descriptor.Sha256].LayerDiffID = ""

\* ---- properties of the fetcher -------------------------------------------
FetchSucceeded == fpc = "done" /\ fErr = NoFetchErr

RECURSIVE Concat(_)
\* the concatenation of a sequence of sequences
Concat(ss) == IF ss = <<>> THEN <<>> ELSE Head(ss) \o Concat(Tail(ss))

\* what the strategy call number i returned, as Readables
ReturnedBy(i) ==
    [j \in 1..fCalls[i].returned |->
        [readable |-> [call |-> i, n |-> j,
                       type |-> IF fCalls[i].call.strategy = "FetchImageAssets"
                                THEN "image" ELSE "oci"]]]

\* C10: the strategies are called for the references in input order, one
\* call per reference, and on success the result is the concatenation, in
\* input order, of what each call returned: a Readable of an earlier
\* reference precedes every Readable of a later one.
C10_ResultInInputOrder ==
    /\ \A i \in 1..Len(fCalls) : fCalls[i].call.idx = i /\ fCalls[i].call.name = fNames[i]
    /\ FetchSucceeded =>
          /\ Len(fCalls) = Len(fNames)
          /\ fResult = Concat([i \in 1..Len(fCalls) |-> ReturnedBy(i)])
          /\ \A p, q \in 1..Len(fResult) :
                p < q => fResult[p].readable.call <= fResult[q].readable.call

C10_Witness ==
    /\ FetchSucceeded
    /\ Len(fNames) = 2
    /\ fCalls[1].returned = 2
    /\ fCalls[2].returned = 1
    /\ fCalls[1].call.strategy # fCalls[2].call.strategy

FetchFailed == fpc = "done" /\ fErr # NoFetchErr

\* C11 as stated: when FetchAssets returns an error, the sequence it returns
\* holds none of the Readables of the references fetched before the failure.
C11_NoPartialSuccess == FetchFailed => fResult = <<>>

\* C12: a strategy call that returned an error is the last strategy call of
\* the FetchAssets call, and FetchAssets has returned with the error that
\* names the failed strategy's locator type.
C12_FailFast ==
    \A i \in 1..Len(fCalls) :
        fCalls[i].failed =>
            /\ i = Len(fCalls)
            /\ fpc = "done"
            /\ fErr.msg = "unable to fetch asset of type"

C12_Witness ==
    /\ FetchFailed
    /\ Len(fNames) = 2
    /\ Len(fCalls) = 1
    /\ fCalls[1].failed

\* the strategy that matches a locator type
StrategyOf(locator) ==
    IF locator = URILocator THEN "FetchURIAssets"
    ELSE IF locator = FilepathLocator THEN "FetchFileAssets"
    ELSE "FetchImageAssets"

\* C13: the strategy calls made so far are one per reference processed, in
\* order: call i is for reference i, names that reference, and is made on the
\* strategy that matches the locator type of the reference; a FetchAssets
\* call that succeeds has made exactly one call per reference.
C13_OneMatchingStrategy ==
    /\ fpc = "loop" => Len(fCalls) = fIdx - 1
    /\ FetchFailed /\ ~fWorld.getwdErr => Len(fCalls) = fIdx
    /\ FetchSucceeded => Len(fCalls) = Len(fNames)
    /\ \A i \in 1..Len(fCalls) :
          /\ fCalls[i].call.idx = i
          /\ fCalls[i].call.name = fNames[i]
          /\ fCalls[i].call.strategy =
                StrategyOf(GetLocatorType(fNames[i], fCfg.workingDir, fWorld.disk))

C13_Witness ==
    /\ FetchSucceeded
    /\ Len(fCalls) = 2
    /\ fCalls[1].call.strategy = "FetchFileAssets"
    /\ fCalls[2].call.strategy = "FetchURIAssets"

\* the argument of the last option of a kind, or the default
LastArg(options, opt, default) ==
    LET at == {i \in 1..Len(options) : options[i].opt = opt}
    IN IF at = {} THEN default
       ELSE options[CHOOSE i \in at : \A j \in at : j <= i].arg

\* C14: once DefaultFetcherConfig has succeeded, each field of cfg is the
\* argument of the last option that sets it, or the default when no option
\* does; every strategy call gets cfg's context, the file fetcher cfg's
\* working directory, the image fetcher cfg's pull policy, and the locator
\* classifies with cfg's working directory.
C14_ConfigFromOptions ==
    (fpc \in {"loop", "done"} /\ ~fWorld.getwdErr) =>
        /\ fCfg.ctx = LastArg(fOptions, "WithContext", "Background")
        /\ fCfg.imagePullPolicy = LastArg(fOptions, "WithPullPolicy", "PullIfNotPresent")
        /\ fCfg.workingDir = LastArg(fOptions, "WithWorkingDir", Cwd)
        /\ \A i \in 1..Len(fCalls) :
              LET c == fCalls[i].call
              IN /\ c.ctx = fCfg.ctx
                 /\ c.strategy = "FetchFileAssets" => c.workingDir = fCfg.workingDir
                 /\ c.strategy = "FetchImageAssets" => c.pullPolicy = fCfg.imagePullPolicy
                 /\ c.strategy =
                       StrategyOf(GetLocatorType(c.name, fCfg.workingDir, fWorld.disk))

C14_Witness ==
    /\ fpc = "done"
    /\ Len(fOptions) = 2
    /\ fOptions[1] = [opt |-> "WithPullPolicy", arg |-> "PullAlways"]
    /\ fOptions[2] = [opt |-> "WithPullPolicy", arg |-> "PullNever"]
    /\ Len(fCalls) = 1
    /\ fCalls[1].call.strategy = "FetchImageAssets"
    /\ fCalls[1].call.pullPolicy = "PullNever"

\* C15: FetchAssets never returns the "unable to determine asset type" error,
\* and every strategy call follows the locator's rules in priority order: a
\* reference with an http, https or file scheme goes to the URI fetcher even
\* when a path of that name exists; otherwise a reference whose path,
\* absolute or under the working directory, exists goes to the file fetcher;
\* every other reference goes to the image fetcher.
C15_LocatorTotal ==
    /\ fErr.msg # "unable to determine asset type from name"
    /\ \A i \in 1..Len(fCalls) :
          LET n == fNames[i]
              hasScheme == Scheme(n) \in {"http", "https", "file"}
              onDisk == (IF IsAbs(n) THEN n ELSE fCfg.workingDir \o "/" \o n) \in fWorld.disk
              s == fCalls[i].call.strategy
          IN /\ hasScheme => s = "FetchURIAssets"
             /\ (~hasScheme /\ onDisk) => s = "FetchFileAssets"
             /\ (~hasScheme /\ ~onDisk) => s = "FetchImageAssets"

\* a URI reference that also names an existing file, an absolute path that
\* exists while the relative one does not
C15_Witness ==
    /\ fpc = "done"
    /\ fNames = <<URIName, AbsName>>
    /\ Len(fCalls) = 2
    /\ fCfg.workingDir = Cwd
    /\ fWorld.disk = {Cwd \o "/" \o URIName, AbsName}
    /\ fCalls[1].call.strategy = "FetchURIAssets"
    /\ fCalls[2].call.strategy = "FetchFileAssets"

\* ---- properties of the strategies ----------------------------------------
\* the calls a strategy made for its reference number i
CallsAt(log, i) == SelectSeq(log, LAMBDA c : c.at = i)

\* C16: in a FetchURIAssets call the downloader and the OCI-layout wrapping
\* are called only for http and https references and the URI-to-path
\* conversion and the file fetcher only for file references; a reference
\* that was processed without error made exactly its two calls (the download
\* of the reference and the wrapping of the downloaded blob, whose package is
\* in the result the call returns; or the conversion and the file fetcher's call on the
\* converted path); a reference with any other scheme, the empty one
\* included, ends the call with the scheme error and without any call.
C16_SchemeDispatch ==
    sRet.fn = "FetchURIAssets" =>
        LET names == sCall.uriAssets
        IN /\ \A c \in Range(sRet.calls) :
                 /\ c.op \in {"Download", "NewLayoutPackage"} =>
                       Scheme(names[c.at]) \in {"http", "https"}
                 /\ c.op \in {"URIToFilePath", "FetchFileAssets"} =>
                       Scheme(names[c.at]) = "file"
           /\ \A i \in 1..Len(names) :
                 LET scheme == Scheme(names[i])
                     cs == CallsAt(sRet.calls, i)
                 IN /\ (i < sRet.at /\ scheme \in {"http", "https"}) =>
                          /\ cs = <<SCall("Download", i,
                                          [ctx |-> sCall.ctx, uri |-> names[i]], FALSE),
                                    SCall("NewLayoutPackage", i, [blob |-> names[i]], FALSE)>>
                          /\ ~sRet.panicked =>
                                [layout |-> [blob |-> names[i]]] \in Range(sRet.result)
                    /\ (i < sRet.at /\ scheme = "file") =>
                          cs = <<SCall("URIToFilePath", i, names[i], FALSE),
                                 SCall("FetchFileAssets", i,
                                       [ctx |-> sCall.ctx, workingDir |-> "",
                                        path |-> AbsName], FALSE)>>
                    /\ i < sRet.at => scheme \in {"http", "https", "file"}
                    /\ (i = sRet.at /\ names[i] # BadName
                          /\ scheme \notin {"http", "https", "file"}) =>
                          /\ cs = <<>>
                          /\ sRet.err = "unable to handle url scheme"
                    /\ i > sRet.at => cs = <<>>

C16_Witness ==
    /\ sRet.fn = "FetchURIAssets"
    /\ sCall.uriAssets = <<URIName, PathName>>
    /\ sRet.err = "unable to handle url scheme"
    /\ Len(sRet.result) = 1
    /\ Len(sRet.calls) = 2

\* C17: FetchImageAssets calls Fetch for the image names in order, one call
\* per name, each with the caller's context and pull policy; a failing Fetch
\* is the last one and makes FetchImageAssets return an error; a call that
\* succeeds has fetched every name and returns one image per name, in order.
C17_ImagePerName ==
    sRet.fn = "FetchImageAssets" =>
        LET names == sCall.imageNames
            log == sRet.calls
        IN /\ Len(log) <= Len(names)
           /\ \A j \in 1..Len(log) :
                 /\ log[j].op = "Fetch"
                 /\ log[j].at = j
                 /\ log[j].arg.name = names[j]
                 /\ log[j].arg.ctx = sCall.ctx
                 /\ log[j].arg.pullPolicy = sCall.pullPolicy
                 /\ log[j].err => (j = Len(log) /\ sRet.err = "unable to fetch asset image")
           /\ sRet.err # NoErr => (log # <<>> /\ log[Len(log)].err)
           /\ sRet.err = NoErr =>
                 /\ Len(log) = Len(names)
                 /\ Len(sRet.result) = Len(names)
                 /\ \A j \in 1..Len(names) :
                       sRet.result[j].image = names[j] /\ sRet.result[j].fetch = j

C17_Witness ==
    /\ sRet.fn = "FetchImageAssets"
    /\ sRet.err = NoErr
    /\ sCall.pullPolicy = "PullNever"
    /\ Len(sRet.result) = 2
    /\ sRet.result[1].image # sRet.result[2].image

\* C18: the file fetcher looks at the path itself when it is absolute,
\* whatever the working directory, and at the path under the working
\* directory otherwise; it returns exactly one package, of that path, when
\* an OCI-layout file is there, and an error and no package when nothing is
\* there or the file is not OCI-layout.
C18_FileFetcher ==
    sRet.fn = "FetchFileAssets" =>
        LET a == sCall.fileAsset
            wd == sCall.workingDir
            path == IF a = AbsName \/ wd = "" THEN a ELSE wd \o "/" \o a
            kind == KindAt(sCall.disk, path)
        IN /\ sRet.path = path
           /\ kind = "oci" =>
                 /\ sRet.err = NoErr
                 /\ sRet.result = <<[layout |-> [file |-> path]]>>
           /\ kind # "oci" => (sRet.err # NoErr /\ sRet.result = <<>>)
           /\ (a = AbsName /\ sCall.disk[AbsName] = "oci") => sRet.err = NoErr

C18_Witness ==
    /\ sRet.fn = "FetchFileAssets"
    /\ sCall.workingDir = InvalidDir
    /\ sCall.fileAsset = AbsName
    /\ sRet.err = NoErr
    /\ Len(sRet.result) = 1

\* C26 as stated: the error FetchAssets returns when a strategy failed names
\* the locator type of the failed strategy and the reference it failed for.
C26_ErrorNamesReference ==
    (fpc = "done" /\ fErr.msg = "unable to fetch asset of type") =>
        /\ \E i \in 1..Len(fErr.args) :
              fErr.args[i] \in {URILocator, FilepathLocator, ImageLocator}
        /\ \E i \in 1..Len(fErr.args) : fErr.args[i] = fNames[fIdx]

\* C27 as stated: a FetchURIAssets call returns; it does not panic.
C27_NoPanic == sRet.fn = "FetchURIAssets" => ~sRet.panicked


\* ---- two FetchAssets invocations at once ---------------------------------
\* the result and error of FetchAssets(names, options) run alone as
\* invocation g, when its i-th strategy call fails iff fails[i]
RECURSIVE AloneFrom(_, _, _, _, _, _, _)
AloneFrom(g, names, cfg, disk, fails, i, result) ==
    IF i > Len(names) THEN [result |-> result, err |-> NoFetchErr]
    ELSE LET locator == GetLocatorType(names[i], cfg.workingDir, disk)
         IN IF i <= Len(fails) /\ fails[i]
            THEN [result |-> result,
                  err |-> FetchErr("unable to fetch asset of type",
                                   <<locator, StrategyCause>>)]
            ELSE AloneFrom(g, names, cfg, disk, fails, i + 1,
                     result \o CastToReadable(Fetched(<<g, i>>, 1,
                         IF locator = ImageLocator THEN "image" ELSE "oci")))

Alone(g, names, options, world, fails) ==
    IF world.getwdErr
    THEN [result |-> <<>>,
          err |-> FetchErr("unable to create asset fetcher config", <<"Getwd err">>)]
    ELSE AloneFrom(g, names, ApplyOptions(DefaultFetcherConfig, options),
                   world.disk, fails, 1, <<>>)

\* C30: under every interleaving of two FetchAssets invocations on one
\* Fetcher, each strategy call of an invocation carries the context, pull
\* policy and working directory of that invocation's own options, and an
\* invocation that has returned holds the result and error it returns when
\* run alone, with no object fetched by the other invocation in its result.
C30_NoInterference ==
    \A g \in Invocations :
        LET l == goroutines[g]
            own == ApplyOptions(DefaultFetcherConfig, l.options)
            fails == [i \in 1..Len(l.calls) |-> l.calls[i].failed]
            alone == Alone(g, l.names, l.options, fWorld, fails)
        IN /\ \A i \in 1..Len(l.calls) :
                 l.calls[i].call =
                     StrategyCall(GetLocatorType(l.names[i], own.workingDir, fWorld.disk),
                                  own, l.names[i], i)
           /\ l.pc = "done" =>
                 /\ l.result = alone.result
                 /\ l.err = alone.err
                 /\ \A j \in 1..Len(l.result) : l.result[j].readable.call[1] = g

\* invocation 2 has returned two objects fetched as images under its pull
\* policy while invocation 1, with another working directory, is in its
\* loop after a file fetch of the same reference
C30_Witness ==
    /\ goroutines # <<>>
    /\ goroutines[1].pc = "loop"
    /\ Len(goroutines[1].calls) = 1
    /\ goroutines[1].calls[1].call.strategy = "FetchFileAssets"
    /\ goroutines[1].calls[1].call.workingDir = "/other"
    /\ goroutines[2].pc = "done"
    /\ goroutines[2].err = NoFetchErr
    /\ Len(goroutines[2].result) = 2
    /\ \A i \in 1..2 :
          /\ goroutines[2].calls[i].call.strategy = "FetchImageAssets"
          /\ goroutines[2].calls[i].call.pullPolicy = "PullAlways"
          /\ goroutines[2].calls[i].call.ctx = "ctx"
          /\ goroutines[2].calls[i].call.name = goroutines[1].calls[1].call.name

\* ---- two AddAssetBlobs calls at once -------------------------------------
\* the two callers' blobs declare the same hash
SameDeclaredHash ==
    /\ goroutines # <<>>
    /\ goroutines[1].aBlobs[1].descriptor.Sha256 = goroutines[2].aBlobs[1].descriptor.Sha256

\* C31: when two callers add blobs declaring the same hash H to one writer,
\* in whatever order their calls take effect, both calls return, and a
\* following Write that succeeds sets a label with one entry for H that
\* carries the identity and the content-derived diff-id of the blob that is
\* last in lw.blobs.
C31_LastInSequenceWins ==
    SameDeclaredHash =>
        /\ \A g \in Invocations : goroutines[g].pc # "fatal"
        /\ WriteSucceeded =>
              LET aBlob == blobs[Len(blobs)]
                  H == aBlob.descriptor.Sha256
                  label == Label(calls, LayersLabel)
              IN /\ Len(label) = 1
                 /\ label[1].key = H
                 /\ label[1].id = aBlob.descriptor.ID
                 /\ label[1].layerDiffID =
                        DiffIDOf(Sha256Hex(ToAssetTar(H, aBlob.content)))

\* ---- the layers and the label of one Write -------------------------------
\* C32: when Write returns nil, the file at every path it passed to
\* AddLayerWithDiffID has content whose hash is the diff-id passed with it.
C32_RegisteredFilesMatch ==
    WriteSucceeded =>
        \A i \in 1..Len(calls) :
            calls[i].op = "AddLayerWithDiffID" =>
                DiffIDOf(Sha256Hex(fs[calls[i].path[1]][calls[i].path[2]])) = calls[i].arg

\* the AddLayerWithDiffID calls of log for blobs declaring sha
AddedFor(log, sha) ==
    {i \in 1..Len(log) : log[i].op = "AddLayerWithDiffID" /\ log[i].path[2] = sha}

\* C33: whatever came before, no entry of a label value set by a Write has
\* an empty LayerDiffID: the LayerDiffID of the entry for a hash is the
\* "sha256:"-prefixed hash of the layer, the value the same Write passed to
\* its last AddLayerWithDiffID call for a blob declaring that hash.
C33_LabelDiffIDs ==
    \A c \in 1..Len(calls) :
        (ret.op = "Write" /\ calls[c].op = "SetLabel") =>
            \A e \in 1..Len(calls[c].arg) :
                LET entry == calls[c].arg[e]
                    at == AddedFor(SubSeq(calls, 1, c), entry.key)
                IN /\ entry.layerDiffID # EmptyDiffID
                   /\ at # {}
                   /\ entry.layerDiffID = calls[Last(at)].arg
                   /\ entry.layerDiffID =
                          DiffIDOf(Sha256Hex(ToAssetTar(entry.key,
                                                        blobs[calls[Last(at)].at].content)))

\* a label set by a Write that made two AddLayerWithDiffID calls for one
\* hash, with different diff-ids
C33_Witness ==
    /\ ret.op = "Write"
    /\ Label(calls, LayersLabel) # <<>>
    /\ \E i, j \in AddedFor(calls, "second-sha256") : i < j /\ calls[i].arg # calls[j].arg

\* C34: a Write on an open writer that holds no blob makes no
\* AddLayerWithDiffID call and one call on the target, SetLabel of
\* "io.buildpacks.asset.layers" with the encoding of the empty AssetMap, and
\* returns nil when that call does.
C34_EmptyWrite ==
    [][(ret'.op = "Write" /\ tmpDir # NoDir /\ blobs = <<>>) =>
          /\ Len(calls') = 1
          /\ calls'[1].op = "SetLabel"
          /\ calls'[1].path = "io.buildpacks.asset.layers"
          /\ calls'[1].arg = EncodeAssetMap(<<>>)
          /\ calls'[1].arg = <<>>
          /\ ret'.err = (IF calls'[1].err THEN ErrSetLabel ELSE NoErr)
          /\ UNCHANGED <<tmpDir, blobs, metadata, fs>>]_vars

C34_Witness ==
    /\ WriteSucceeded
    /\ tmpDir # NoDir
    /\ blobs = <<>>
    /\ metadata = <<>>
    /\ Len(calls) = 1

\* C35: an Open that fails to create the workspace leaves the writer
\* unopened with its blobs and metadata as they were: a following Open can
\* succeed, a following Write or Close fails as not open. A Close that fails
\* to delete the workspace leaves the writer open on the same workspace with
\* its blobs and metadata as they were: a following Close is tried again, a
\* following Open fails as already open.
C35_FailedTransition ==
    [][/\ (ret'.op = "Open" /\ ret'.err = ErrTempDir) =>
             /\ tmpDir = NoDir
             /\ UNCHANGED <<tmpDir, blobs, metadata, fs>>
       /\ ret = Returned("Open", ErrTempDir) =>
             /\ ENABLED OpenOk
             /\ ret'.op = "Open" => ret'.err \in {NoErr, ErrTempDir}
             /\ ret'.op = "Write" => ret'.err = ErrNotOpenWrite
             /\ ret'.op = "Close" => ret'.err = ErrNotOpenClose
       /\ (ret'.op = "Close" /\ ret'.err = ErrRemoveAll) =>
             /\ tmpDir # NoDir
             /\ tmpDir \in DOMAIN fs'
             /\ UNCHANGED <<tmpDir, blobs, metadata>>
       /\ ret = Returned("Close", ErrRemoveAll) =>
             /\ ENABLED CloseOk
             /\ ret'.op = "Close" => ret'.err \in {NoErr, ErrRemoveAll}
             /\ ret'.op = "Open" => ret'.err = ErrAlreadyOpen]_vars

\* a failed Close of a writer whose Write had stored a diff-id
C35_Witness ==
    /\ ret = Returned("Close", ErrRemoveAll)
    /\ tmpDir # NoDir
    /\ \E sha \in DOMAIN metadata :
          /\ metadata[sha].LayerDiffID # EmptyDiffID
          /\ fs[tmpDir][sha] = NoFile
====
